---- MODULE Spec2Model ----
(***************************************************************************)
(* Vue-Dashboard: the bulk product form (BulkProductForm.vue), and the     *)
(* CircuitBreaker and RetryManager utilities of the error-handling guide.  *)
(* and the useValidation composable of the validation guide.               *)
(* State machines over disjoint variables:                                 *)
(*   SpecBreaker     one CircuitBreaker instance, its clock and its callers*)
(*   SpecRetry       one RetryManager.execute call                         *)
(*   SpecGuarded     a RetryManager around a CircuitBreaker, per record    *)
(*   Spec            the bulk form: rows, validation, createAllProducts    *)
(*   SpecRun         the bulk run when every request settles               *)
(*   SpecProduct     the form's functions on one product of any shape      *)
(*   SpecValidation  validateField of useValidation on numeric rules       *)
(***************************************************************************)
EXTENDS Integers, Sequences, FiniteSets, TLC

(* ------------------------------ bounds --------------------------------- *)
\* execute() calls made on the breaker in one behaviour
MaxCalls == 4
\* last instant of the clock (Date.now() in abstract ticks, starting at 1)
MaxTime == 4
\* options.failureThreshold ranges over 1..MaxThreshold
MaxThreshold == 2
\* options.timeout ranges over 1..MaxTimeout ticks
MaxTimeout == 2
\* options.monitorWindow ranges over 1..MaxWindow ticks
MaxWindow == 1
\* RetryManager options: maxAttempts in 1..MaxAttemptsBound, baseDelay in
\* 1..MaxBaseDelay, backoffFactor in 0..MaxFactor, maxDelay in 1..MaxDelayBound
MaxAttemptsBound == 3
MaxBaseDelay == 2
MaxFactor == 2
MaxDelayBound == 3
\* rows the form holds at most, and ids addEmptyProduct hands out before a reset
MaxRows == 2
MaxIds == 2
\* the numbers given to validateField are -MaxValue..MaxValue
MaxValue == 2
\* records of a batch dispatched through the guarded call
MaxRecords == 2

VARIABLES
    \* CircuitBreaker fields
    options, state, failures, lastFailureTime, successes,
    \* the clock read by Date.now()
    now,
    \* one entry per execute() call made so far, in call order
    calls,
    \* history: reset() has been called; the failures reported since the last
    \* success or reset()
    wasReset, streak,
    \* RetryManager: this.options, and the locals of one execute() call
    policy, rpc, attempt, lastError, delay,
    \* history: invocations of fn by that call, and the outcome of each one
    \* that has completed
    fnCalls, fnLog,
    \* BulkProductForm refs
    manualProducts, validationErrors, creating, creationResults,
    createdCount, totalToCreate, productIdCounter,
    \* createAllProducts: the loop index i, and the body of the request it awaits
    i, sent,
    \* history: the apiRequest calls that have been made and not yet settled,
    \* and the ids of the rows whose request resolved since the form was last
    \* reset
    inFlight, created,
    \* history of the current or last run: the ids of the rows it started
    \* with, every outcome it pushed, its last alert
    batch, outcomes, alert,
    \* history: what the last validateAll() stored, while the rows are as it
    \* saw them
    validated,
    \* useValidation: errors.value, and the last validateField call with the
    \* value it returned
    errors, call, valid,
    \* the guarded calls of a batch: the record being dispatched, and the time
    \* at which the timer of the retry's sleep fires
    record, wake

cbVars == <<options, state, failures, lastFailureTime, successes, now, calls,
           wasReset, streak>>
rtVars == <<policy, rpc, attempt, lastError, delay, fnCalls, fnLog>>
formVars == <<manualProducts, validationErrors, creating, creationResults,
              createdCount, totalToCreate, productIdCounter, i, sent,
              inFlight, created, batch, outcomes, alert, validated>>
uvVars == <<errors, call, valid>>
gdVars == <<record, wake>>
vars == <<cbVars, rtVars, formVars, uvVars, gdVars>>
\* what the steps of each component leave alone
notRetry == <<cbVars, formVars, uvVars, gdVars>>
notBreaker == <<rtVars, formVars, uvVars, gdVars>>
notForm == <<cbVars, rtVars, uvVars, gdVars>>
notValidation == <<cbVars, rtVars, formVars, gdVars>>

(* ---------------------------- RetryManager ----------------------------- *)
\* the errors fn may reject with: error.code and error.statusCode
\* (statusCode 0 stands for undefined: every comparison below is false for both)
Errors ==
    [code : {"NETWORK_ERROR", "OTHER"}, statusCode : {0}]
    \cup [code : {"OTHER"}, statusCode : {400, 404, 408, 422, 429, 499, 500, 503, 599, 600}]

NoError == [code |-> "none", statusCode |-> 0]

\* defaultRetryCondition(error)
defaultRetryConditionNoUpper(error) ==
    \/ error.code = "NETWORK_ERROR"
    \/ error.statusCode = 408
    \/ error.statusCode = 429
    \/ error.statusCode >= 500

defaultRetryCondition(error) ==
    \/ error.code = "NETWORK_ERROR"
    \/ error.statusCode = 408
    \/ error.statusCode = 429
    \/ (error.statusCode >= 500 /\ error.statusCode < 600)

\* Math.pow(b, n) for a natural exponent
RECURSIVE pow(_, _)
pow(b, n) == IF n = 0 THEN 1 ELSE b * pow(b, n - 1)

\* Math.min
min(a, b) == IF a < b THEN a ELSE b

\* calculateDelay(attempt) before the jitter
backoffNoCap(a) ==
    policy.baseDelay * pow(policy.backoffFactor, a - 1)

backoff(a) ==
    min(policy.baseDelay * pow(policy.backoffFactor, a - 1), policy.maxDelay)

\* calculateDelay(attempt): with jitter the delay is multiplied by a random
\* factor of [0.5, 1), here any whole number of ticks from half the delay up
calculateDelay(a) ==
    IF policy.jitter
    THEN { d \in 0..backoff(a) : 2 * d >= backoff(a) }
    ELSE { backoff(a) }

\* for (let attempt = 1; ...; attempt++)
nextAttemptStuck(a) == a

nextAttempt(a) == a + 1

\* attempt === this.options.maxAttempts || !this.options.retryCondition(error)
giveUpEarly(a, error) ==
    a + 1 >= policy.maxAttempts \/ ~defaultRetryCondition(error)

giveUp(a, error) ==
    a = policy.maxAttempts \/ ~defaultRetryCondition(error)

\* the class of an error in the taxonomy of the outcomes of fn: a network
\* failure, a timeout (408), rate limiting (429) or a server error (5xx) is
\* transient, any other error is permanent
Transient(error) ==
    \/ error.code = "NETWORK_ERROR"
    \/ error.statusCode \in {408, 429}
    \/ error.statusCode \in 500..599

\* a RetryManager that no call uses
ParkedRetry ==
    /\ policy = [maxAttempts |-> 1, baseDelay |-> 1, maxDelay |-> 1,
                 backoffFactor |-> 1, jitter |-> FALSE]
    /\ rpc = "idle"
    /\ attempt = 0
    /\ lastError = NoError
    /\ delay = 0
    /\ fnCalls = 0
    /\ fnLog = <<>>

InitRetry ==
    /\ policy \in [maxAttempts : 1..MaxAttemptsBound,
                   baseDelay : 1..MaxBaseDelay,
                   maxDelay : 1..MaxDelayBound,
                   backoffFactor : 0..MaxFactor,
                   jitter : BOOLEAN]
    /\ rpc = "idle"
    /\ attempt = 0
    /\ lastError = NoError
    /\ delay = 0
    /\ fnCalls = 0
    /\ fnLog = <<>>

\* the loop head, then the call of fn: attempt <= maxAttempts ? await fn() : throw lastError
loopHead(a) ==
    IF a <= policy.maxAttempts
    THEN /\ rpc' = "awaiting"
         /\ fnCalls' = fnCalls + 1
    ELSE /\ rpc' = "thrown"
         /\ fnCalls' = fnCalls

\* execute(fn, ...args) up to its first await
RetryExecute ==
    /\ rpc = "idle"
    /\ attempt' = 1
    /\ loopHead(1)
    /\ UNCHANGED <<policy, lastError, delay, fnLog, notRetry>>

\* fn resolved: return result
FnResolveNoReturn ==
    /\ rpc = "awaiting"
    /\ fnLog' = Append(fnLog, "ok")
    /\ attempt' = nextAttempt(attempt)
    /\ loopHead(nextAttempt(attempt))
    /\ UNCHANGED <<policy, lastError, delay, notRetry>>

FnResolve ==
    /\ rpc = "awaiting"
    /\ rpc' = "returned"
    /\ fnLog' = Append(fnLog, "ok")
    /\ UNCHANGED <<policy, attempt, lastError, delay, fnCalls, notRetry>>

\* fn rejected: rethrow, or compute the delay and sleep
FnReject(error) ==
    /\ rpc = "awaiting"
    /\ lastError' = error
    /\ fnLog' = Append(fnLog, IF Transient(error) THEN "transient" ELSE "permanent")
    /\ IF giveUp(attempt, error)
       THEN /\ rpc' = "thrown"
            /\ delay' = delay
       ELSE /\ rpc' = "sleeping"
            /\ delay' \in calculateDelay(attempt)
    /\ UNCHANGED <<policy, attempt, fnCalls, notRetry>>

\* the sleep is over: attempt++, the loop head and the next call of fn
SleepDone ==
    /\ rpc = "sleeping"
    /\ attempt' = nextAttempt(attempt)
    /\ loopHead(nextAttempt(attempt))
    /\ UNCHANGED <<policy, lastError, delay, fnLog, notRetry>>

NextRetry ==
    \/ RetryExecute
    \/ FnResolve
    \/ \E error \in Errors : FnReject(error)
    \/ SleepDone

\* const result = await fn(...args): what fn resolves with
FnResult == [data |-> "result"]

\* what execute() hands to its caller: `return result`, the value of fn as fn
\* resolved it, or `throw error`, the error of fn as fn threw it
settled ==
    CASE rpc = "returned" -> FnResult
      [] rpc = "thrown" -> lastError
      [] OTHER -> NoError

\* a breaker that no call uses
ParkedBreaker ==
    /\ options = [failureThreshold |-> 1, timeout |-> 1, monitorWindow |-> 1]
    /\ state = "CLOSED"
    /\ failures = 0
    /\ lastFailureTime = 0
    /\ successes = <<>>
    /\ now = 1
    /\ calls = <<>>
    /\ wasReset = FALSE
    /\ streak = 0

\* C1: one execute() call invokes the wrapped operation at most maxAttempts
\* times, whatever the policy and whatever the outcomes of the operation.
C1_AtMostMaxAttempts ==
    fnCalls <= policy.maxAttempts

\* every attempt of a policy with several attempts failed with a retryable
\* error: the call has thrown after maxAttempts invocations
C1_Witness ==
    /\ policy.maxAttempts >= 2
    /\ rpc = "thrown"
    /\ defaultRetryCondition(lastError)
    /\ fnCalls = policy.maxAttempts

\* fn failed k times with a transient error and then succeeded
TransientThenOk(k) ==
    /\ Len(fnLog) = k + 1
    /\ fnLog[k + 1] = "ok"
    /\ \A j \in 1..k : fnLog[j] = "transient"

\* every invocation of fn so far failed with a transient error
AllTransient ==
    /\ fnLog # <<>>
    /\ \A j \in 1..Len(fnLog) : fnLog[j] = "transient"

C14_PermanentNeverRetried ==
    /\ []((fnLog # <<>> /\ fnLog[1] = "permanent")
            => (rpc = "thrown" /\ fnCalls = 1 /\ Len(fnLog) = 1 /\ delay = 0))
    /\ [][(Len(fnLog') = Len(fnLog) + 1 /\ fnLog'[Len(fnLog')] = "permanent")
            => (rpc' = "thrown" /\ fnCalls' = fnCalls /\ delay' = delay)]_rtVars

\* a policy with attempts to spare has thrown on a first failure with 404
C14_Witness ==
    /\ policy.maxAttempts >= 2
    /\ fnLog = <<"permanent">>
    /\ lastError.statusCode = 404
    /\ rpc = "thrown"
    /\ fnCalls = 1

C16_DelayMonotoneBounded ==
    ~policy.jitter
    => \A a \in 1..MaxAttemptsBound :
         \A d1 \in calculateDelay(a), d2 \in calculateDelay(a + 1) :
            d1 <= d2 /\ d1 <= policy.maxDelay

\* C16 as amended: without jitter, calculateDelay(a) <= maxDelay for every
\* policy, and calculateDelay(a) <= calculateDelay(a+1) for every policy with
\* baseDelay >= 0 and backoffFactor >= 1.
C16_DelayMonotoneFromFactorOne ==
    ~policy.jitter
    => \A a \in 1..MaxAttemptsBound :
         \A d1 \in calculateDelay(a), d2 \in calculateDelay(a + 1) :
            /\ d1 <= policy.maxDelay
            /\ (policy.baseDelay >= 0 /\ policy.backoffFactor >= 1) => d1 <= d2

\* the second delay of a growing backoff has been computed and was capped
C16_Witness ==
    /\ ~policy.jitter
    /\ policy.backoffFactor >= 2
    /\ rpc = "sleeping"
    /\ attempt = 2
    /\ policy.baseDelay < policy.maxDelay
    /\ policy.baseDelay * policy.backoffFactor > policy.maxDelay
    /\ delay = policy.maxDelay

(* --------------------------- CircuitBreaker ---------------------------- *)
\* this.lastFailureTime = null
Null == 0

\* shouldAttemptReset(): lastFailureTime && (Date.now() - lastFailureTime) > timeout
\* (null and 0 are both falsy; the clock starts at 1, so Null stands for both)
shouldAttemptResetNoTimeout ==
    lastFailureTime # Null

shouldAttemptReset ==
    /\ lastFailureTime # Null
    /\ (now - lastFailureTime) > options.timeout

\* The state check at the head of execute(): "throw" (circuit-open error),
\* "trial" (OPEN -> HALF_OPEN, then the call), or "pass" (the call).
GateNoFastFail(st, reset) ==
    IF st = "OPEN" /\ reset THEN "trial" ELSE "pass"

Gate(st, reset) ==
    IF st = "OPEN"
    THEN IF reset THEN "trial" ELSE "throw"
    ELSE "pass"

\* onFailure(): failures++, lastFailureTime = Date.now(), OPEN at the threshold
onFailureStateLate(st, f) ==
    IF f + 1 > options.failureThreshold THEN "OPEN" ELSE st

onFailureState(st, f) ==
    IF f + 1 >= options.failureThreshold THEN "OPEN" ELSE st

\* onSuccess(): HALF_OPEN -> CLOSED, any other state kept
onSuccessState(st) ==
    IF st = "HALF_OPEN" THEN "CLOSED" ELSE st

\* successes.filter(time => time > cutoff)
RECURSIVE filterRecent(_, _)
filterRecent(s, cutoff) ==
    IF s = <<>> THEN <<>>
    ELSE IF Head(s) > cutoff
         THEN <<Head(s)>> \o filterRecent(Tail(s), cutoff)
         ELSE filterRecent(Tail(s), cutoff)

Running == { k \in 1..Len(calls) : calls[k].status = "running" }

\* number of times the wrapped function this.fn has been invoked
Invoked == Cardinality({ k \in 1..Len(calls) : calls[k].status # "open" })

InitBreaker ==
    /\ options \in [failureThreshold : 1..MaxThreshold,
                    timeout : 1..MaxTimeout,
                    monitorWindow : 1..MaxWindow]
    /\ state = "CLOSED"
    /\ failures = 0
    /\ lastFailureTime = Null
    /\ successes = <<>>
    /\ now = 1
    /\ calls = <<>>
    /\ wasReset = FALSE
    /\ streak = 0

\* execute(...args) up to its await of this.fn(...args)
Execute ==
    /\ Len(calls) < MaxCalls
    /\ LET g == Gate(state, shouldAttemptReset) IN
       /\ state' = IF g = "trial" THEN "HALF_OPEN" ELSE state
       /\ calls' = Append(calls,
             [status |-> IF g = "throw" THEN "open" ELSE "running",
              seen   |-> IF g = "trial" THEN "HALF_OPEN" ELSE state,
              trial  |-> g = "trial"])
    /\ UNCHANGED <<options, failures, lastFailureTime, successes, now, wasReset,
                   streak, notBreaker>>

\* this.fn resolved: onSuccess(), return result
ResolveNoReset(k) ==
    /\ k \in Running
    /\ failures' = failures
    /\ streak' = 0
    /\ successes' = filterRecent(Append(successes, now), now - options.monitorWindow)
    /\ state' = onSuccessState(state)
    /\ calls' = [calls EXCEPT ![k].status = "ok"]
    /\ UNCHANGED <<options, lastFailureTime, now, wasReset, notBreaker>>

Resolve(k) ==
    /\ k \in Running
    /\ failures' = 0
    /\ streak' = 0
    /\ successes' = filterRecent(Append(successes, now), now - options.monitorWindow)
    /\ state' = onSuccessState(state)
    /\ calls' = [calls EXCEPT ![k].status = "ok"]
    /\ UNCHANGED <<options, lastFailureTime, now, wasReset, notBreaker>>

\* this.fn rejected: onFailure(), rethrow
Reject(k) ==
    /\ k \in Running
    /\ failures' = failures + 1
    /\ streak' = streak + 1
    /\ lastFailureTime' = now
    /\ state' = onFailureState(state, failures)
    /\ calls' = [calls EXCEPT ![k].status = "err"]
    /\ UNCHANGED <<options, successes, now, wasReset, notBreaker>>

\* reset()
Reset ==
    /\ state' = "CLOSED"
    /\ failures' = 0
    /\ lastFailureTime' = Null
    /\ successes' = <<>>
    /\ wasReset' = TRUE
    /\ streak' = 0
    /\ UNCHANGED <<options, now, calls, notBreaker>>

\* time passes between two events
Tick ==
    /\ now < MaxTime
    /\ now' = now + 1
    /\ UNCHANGED <<options, state, failures, lastFailureTime, successes, calls,
                   wasReset, streak, notBreaker>>

NextBreaker ==
    \/ Execute
    \/ \E k \in 1..MaxCalls : Resolve(k)
    \/ \E k \in 1..MaxCalls : Reject(k)
    \/ Reset
    \/ Tick

(* ----------------------- CircuitBreaker: claims ------------------------ *)
\* openTimeout has elapsed since lastFailureTimestamp
Elapsed == lastFailureTime # Null /\ now - lastFailureTime > options.timeout

\* this step is an execute() call
ExecuteStep == Len(calls') = Len(calls) + 1

\* this step is an execute() call or the completion of one
CallStep == calls' # calls

\* C2: from CLOSED the breaker opens exactly at the failure that makes the
\* failure count equal to failureThreshold: it is never CLOSED with a count at
\* or above the threshold, a CLOSED -> OPEN step is a failure that brings the
\* count to exactly the threshold, and such a failure always opens it.
C2_OpensExactlyAtThreshold ==
    /\ [](state = "CLOSED" => failures < options.failureThreshold)
    /\ [][(state = "CLOSED" /\ state' = "OPEN")
            => (failures' = failures + 1 /\ failures' = options.failureThreshold)]_cbVars
    /\ [][(state = "CLOSED" /\ failures' = failures + 1
              /\ failures' = options.failureThreshold)
            => state' = "OPEN"]_cbVars

\* the breaker has counted up to a threshold above 1 and opened
C2_Witness ==
    /\ options.failureThreshold >= 2
    /\ state = "OPEN"
    /\ failures = options.failureThreshold
    /\ \E k \in 1..Len(calls) : calls[k].status = "err" /\ calls[k].seen = "CLOSED"

\* C3: once OPEN, no execute() call and no call completion takes the breaker
\* out of OPEN before openTimeout has elapsed since lastFailureTime.
C3_StaysOpenUntilTimeout ==
    [][(state = "OPEN" /\ CallStep /\ ~Elapsed) => state' = "OPEN"]_cbVars

\* the breaker is OPEN before the timeout, a call was refused and another
\* call, started earlier, completed successfully without closing it
C3_Witness ==
    /\ state = "OPEN"
    /\ ~Elapsed
    /\ \E k \in 1..Len(calls) : calls[k].status = "open"
    /\ \E k \in 1..Len(calls) : calls[k].status = "ok"
    /\ failures = 0

\* C4: execute() while OPEN before the timeout throws the circuit-open error,
\* does not invoke the wrapped function and leaves state, failures and
\* lastFailureTime as they were.
C4_FastFailLeavesBreakerUntouched ==
    [][(ExecuteStep /\ state = "OPEN" /\ ~Elapsed)
        => /\ calls'[Len(calls')].status = "open"
           /\ Invoked' = Invoked
           /\ UNCHANGED <<state, failures, lastFailureTime>>]_cbVars

\* failureThreshold consecutive failures opened the breaker and the next call
\* was refused without reaching the wrapped function
C4_Witness ==
    /\ state = "OPEN"
    /\ failures = options.failureThreshold
    /\ Len(calls) = options.failureThreshold + 1
    /\ calls[Len(calls)].status = "open"
    /\ Invoked = options.failureThreshold

\* C5: execute() while OPEN after the timeout moves to HALF_OPEN and invokes
\* the wrapped function; when that trial call succeeds the breaker is CLOSED
\* with a failure count of 0.
C5_TrialSuccessCloses ==
    /\ [][(ExecuteStep /\ state = "OPEN" /\ Elapsed)
            => (state' = "HALF_OPEN" /\ Invoked' = Invoked + 1)]_cbVars
    /\ [][\A k \in Running :
              (calls[k].trial /\ calls'[k].status = "ok")
              => (state' = "CLOSED" /\ failures' = 0)]_cbVars

\* C6: when a call that ran in HALF_OPEN fails, the breaker is OPEN afterwards
\* and lastFailureTime is the time of that failure (reset() not being used).
C6_FailedTrialReopens ==
    [][\A k \in Running :
          (~wasReset /\ calls[k].seen = "HALF_OPEN" /\ calls'[k].status = "err")
          => (state' = "OPEN" /\ lastFailureTime' = now)]_cbVars

\* C7: while the trial call of HALF_OPEN is in flight, a further execute()
\* call does not invoke the wrapped function.
C7_SingleTrial ==
    [][(ExecuteStep /\ state = "HALF_OPEN"
          /\ \E k \in Running : calls[k].trial)
        => Invoked' = Invoked]_cbVars

\* this step is the successful completion of a call
SuccessStep == \E k \in Running : calls'[k].status = "ok"

\* C26: while the breaker is CLOSED a successful call sets the failure count
\* to 0 and leaves it CLOSED, and the breaker only goes from CLOSED to OPEN at
\* a failure that completes an unbroken run of at least failureThreshold
\* failures (no success and no reset() since the first of them).
C26_OnlyUnbrokenRunOpens ==
    /\ [][(state = "CLOSED" /\ SuccessStep)
            => (failures' = 0 /\ state' = "CLOSED")]_cbVars
    /\ [][(state = "CLOSED" /\ state' = "OPEN")
            => (streak' = streak + 1 /\ streak' >= options.failureThreshold)]_cbVars

\* with a threshold of 2 a failure, a success and another failure have left
\* the breaker CLOSED with a count of 1
C26_Witness ==
    /\ options.failureThreshold = 2
    /\ state = "CLOSED"
    /\ ~wasReset
    /\ Cardinality({ k \in 1..Len(calls) : calls[k].status = "err" }) = 2
    /\ Cardinality({ k \in 1..Len(calls) : calls[k].status = "ok" }) = 1
    /\ Running = {}
    /\ failures = 1
    /\ streak = 1

\* C27: in every reachable state, whatever number of execute() calls are in
\* flight and in whatever order they complete, an OPEN breaker has a failure
\* count of at least failureThreshold and a lastFailureTime that is set.
C27_OpenMeansThresholdReached ==
    state = "OPEN" =>
        /\ failures >= options.failureThreshold
        /\ lastFailureTime # Null

(* ------------------- RetryManager around CircuitBreaker ------------------ *)
\* The guarded call of one record, retryManager.execute(() =>
\* breaker.execute(() => submitFn(record))), for the records of a batch one
\* after the other: fn of the RetryManager is the breaker's execute(), this.fn
\* of the breaker is submitFn.  One call is in flight at a time.

\* new Error('Circuit breaker is OPEN'): it has no code and no statusCode
CircuitOpenError ==
    [code |-> "OTHER", statusCode |-> 0, message |-> "Circuit breaker is OPEN"]

\* what submitFn rejects with: a server error (retryable) or a bad request
SubmitErrors ==
    { error \in Errors : error.statusCode \in {400, 503} }

\* no batch is dispatched
ParkedGuarded ==
    /\ record = 0
    /\ wake = 0

\* a breaker and a RetryManager of any options, the jitter off (it only
\* shortens a delay, to lengths that other policies drawn have as well)
InitGuarded ==
    /\ options \in [failureThreshold : 1..MaxThreshold,
                    timeout : 1..MaxTimeout,
                    monitorWindow : 1..MaxWindow]
    /\ state = "CLOSED"
    /\ failures = 0
    /\ lastFailureTime = Null
    /\ successes = <<>>
    /\ now = 1
    /\ calls = <<>>
    /\ wasReset = FALSE
    /\ streak = 0
    /\ policy \in [maxAttempts : 1..MaxAttemptsBound,
                   baseDelay : 1..MaxBaseDelay,
                   maxDelay : 1..MaxDelayBound,
                   backoffFactor : 0..MaxFactor,
                   jitter : {FALSE}]
    /\ rpc = "idle"
    /\ attempt = 0
    /\ lastError = NoError
    /\ delay = 0
    /\ fnCalls = 0
    /\ fnLog = <<>>
    /\ ParkedGuarded

\* the catch block of RetryManager.execute in iteration a: rethrow, or
\* compute the delay and start the sleep
caught(a, error) ==
    /\ lastError' = error
    /\ IF giveUp(a, error)
       THEN /\ rpc' = "thrown"
            /\ UNCHANGED <<delay, wake>>
       ELSE /\ rpc' = "sleeping"
            /\ \E d \in calculateDelay(a) : delay' = d /\ wake' = now + d

\* the loop head of RetryManager.execute in iteration a, n calls of fn made
\* so far, then fn: the head of the breaker's execute(), which throws the
\* circuit-open error into the catch block or goes on to await submitFn
attemptCall(a, n) ==
    IF a > policy.maxAttempts
    THEN /\ rpc' = "thrown"
         /\ fnCalls' = n
         /\ UNCHANGED <<state, calls, lastError, delay, wake>>
    ELSE LET g == Gate(state, shouldAttemptReset) IN
         /\ fnCalls' = n + 1
         /\ state' = IF g = "trial" THEN "HALF_OPEN" ELSE state
         /\ calls' = Append(calls,
               [status |-> IF g = "throw" THEN "open" ELSE "running",
                seen   |-> IF g = "trial" THEN "HALF_OPEN" ELSE state,
                trial  |-> g = "trial"])
         /\ IF g = "throw"
            THEN caught(a, CircuitOpenError)
            ELSE /\ rpc' = "awaiting"
                 /\ UNCHANGED <<lastError, delay, wake>>

\* the dispatcher starts the guarded call of the first record, or of the next
\* one once the call of the record before has returned or thrown
GuardedExecute ==
    /\ rpc \in {"idle", "returned", "thrown"}
    /\ record < MaxRecords
    /\ Len(calls) < MaxCalls
    /\ record' = record + 1
    /\ attempt' = 1
    /\ attemptCall(1, 0)
    /\ UNCHANGED <<options, failures, lastFailureTime, successes, now, wasReset,
                   streak, policy, fnLog, formVars, uvVars>>

\* submitFn resolved: the breaker's onSuccess(), and both execute() return
SubmitFnResolve ==
    /\ rpc = "awaiting"
    /\ failures' = 0
    /\ streak' = 0
    /\ successes' = filterRecent(Append(successes, now), now - options.monitorWindow)
    /\ state' = onSuccessState(state)
    /\ calls' = [calls EXCEPT ![Len(calls)].status = "ok"]
    /\ rpc' = "returned"
    /\ UNCHANGED <<options, lastFailureTime, now, wasReset, policy, attempt,
                   lastError, delay, fnCalls, fnLog, formVars, uvVars, gdVars>>

\* submitFn rejected: the breaker's onFailure() and rethrow, then the catch
\* block of the RetryManager
SubmitFnReject(error) ==
    /\ rpc = "awaiting"
    /\ failures' = failures + 1
    /\ streak' = streak + 1
    /\ lastFailureTime' = now
    /\ state' = onFailureState(state, failures)
    /\ calls' = [calls EXCEPT ![Len(calls)].status = "err"]
    /\ caught(attempt, error)
    /\ UNCHANGED <<options, successes, now, wasReset, policy, attempt, fnCalls,
                   fnLog, formVars, uvVars, record>>

\* the timer of sleep(delay) has fired: attempt++, the loop head and fn
GuardedSleepDone ==
    /\ rpc = "sleeping"
    /\ now >= wake
    /\ Len(calls) < MaxCalls
    /\ attempt' = nextAttempt(attempt)
    /\ attemptCall(nextAttempt(attempt), fnCalls)
    /\ UNCHANGED <<options, failures, lastFailureTime, successes, now, wasReset,
                   streak, policy, fnLog, formVars, uvVars, record>>

NextGuarded ==
    \/ GuardedExecute
    \/ SubmitFnResolve
    \/ \E error \in SubmitErrors : SubmitFnReject(error)
    \/ GuardedSleepDone
    \/ Tick

\* C22: with the RetryManager around the breaker, while the breaker is OPEN
\* and openTimeout has not elapsed since the last failure no step invokes
\* submitFn, for a retry of the current record or for a later record, and an
\* attempt made then ends the record's guarded call at once with the
\* circuit-open error, whatever is left of maxAttempts.
C22_OpenBreakerFailsFast ==
    /\ [][(state = "OPEN" /\ ~Elapsed) => Invoked' = Invoked]_vars
    /\ [][(ExecuteStep /\ state = "OPEN" /\ ~Elapsed)
            => /\ rpc' = "thrown"
               /\ lastError' = CircuitOpenError
               /\ calls'[Len(calls')].status = "open"]_vars

\* the first record's submit failed and opened the breaker, its retry was
\* refused by the breaker, and so was the first attempt of the second
\* record, which had two more attempts to go
C22_Witness ==
    /\ record = 2
    /\ Len(calls) = 3
    /\ calls[1].status = "err"
    /\ calls[2].status = "open"
    /\ calls[3].status = "open"
    /\ Invoked = 1
    /\ state = "OPEN"
    /\ rpc = "thrown"
    /\ lastError = CircuitOpenError
    /\ fnCalls = 1
    /\ policy.maxAttempts = 3

(* --------------------------- BulkProductForm --------------------------- *)
\* Text values are sequences of one-character strings; the value of a number
\* input is <<n>> for the number n and <<>> for the empty string of an empty input.

\* formFields
formFields ==
    << [key |-> "name", label |-> <<"N", "a", "m", "e", " ", "*">>,
        type |-> "text", required |-> TRUE, hasMin |-> FALSE, min |-> 0],
       [key |-> "price", label |-> <<"P", "r", "i", "c", "e", " ", "*">>,
        type |-> "number", required |-> TRUE, hasMin |-> TRUE, min |-> 0],
       [key |-> "code", label |-> <<"C", "o", "d", "e">>,
        type |-> "text", required |-> FALSE, hasMin |-> FALSE, min |-> 0],
       [key |-> "category", label |-> <<"C", "a", "t", "e", "g", "o", "r", "y", " ", "*">>,
        type |-> "text", required |-> TRUE, hasMin |-> FALSE, min |-> 0],
       [key |-> "stock", label |-> <<"S", "t", "o", "c", "k">>,
        type |-> "number", required |-> FALSE, hasMin |-> TRUE, min |-> 0] >>

Keys == { formFields[f].key : f \in 1..Len(formFields) }

\* the values a user types into the input of a field: a name is typed and
\* cleared again, a price and a category are typed; code and stock, the
\* optional fields, keep the values addEmptyProduct gave them
EditValues(key) ==
    CASE key = "name" -> { <<>>, <<"a", "b", "c">> }
      [] key = "price" -> { <<10>> }
      [] key = "category" -> { <<"c">> }
      [] OTHER -> {}

\* String.prototype.trim
RECURSIVE trimStart(_)
trimStart(v) ==
    IF v # <<>> /\ Head(v) = " " THEN trimStart(Tail(v)) ELSE v

RECURSIVE trimEnd(_)
trimEnd(v) ==
    IF v # <<>> /\ v[Len(v)] = " " THEN trimEnd(SubSeq(v, 1, Len(v) - 1)) ELSE v

trim(v) == trimEnd(trimStart(v))

\* label.replace(' *', ''): the first occurrence of " *" removed
RECURSIVE stripStar(_)
stripStar(l) ==
    IF Len(l) < 2 THEN l
    ELSE IF l[1] = " " /\ l[2] = "*" THEN SubSeq(l, 3, Len(l))
    ELSE <<Head(l)>> \o stripStar(Tail(l))

\* the characters of a label as one string
RECURSIVE join(_)
join(l) == IF l = <<>> THEN "" ELSE Head(l) \o join(Tail(l))

\* /^[A-Z0-9-_]{3,50}$/i.test(value)
codeChar(c) ==
    c \in { "a", "b", "c", "A", "B", "C", "0", "1", "2", "-", "_" }

codeFormat(v) ==
    /\ Len(v) >= 3
    /\ Len(v) <= 50
    /\ \A k \in 1..Len(v) : codeChar(v[k])

NoMessage == ""

\* !value?.toString().trim(): an empty or blank text, or the empty number input
blankNoTrim(field, value) ==
    value = <<>>

blank(field, value) ==
    IF field.type = "number" THEN value = <<>> ELSE trim(value) = <<>>

\* `${field.label.replace(' *', '')} is required`
requiredMessage(field) ==
    join(stripStar(field.label)) \o " is required"

\* the body of validateProduct's forEach for one field: the message left in
\* errors[field.key], each later assignment overwriting an earlier one
fieldError(field, value) ==
    IF field.required /\ blank(field, value)
    THEN requiredMessage(field)
    ELSE IF field.type = "text"
    THEN LET e1 == IF value # <<>> /\ field.key = "name" /\ Len(value) < 3
                   THEN "Product name must be at least 3 characters"
                   ELSE NoMessage
             e2 == IF value # <<>> /\ field.key = "code" /\ ~codeFormat(value)
                   THEN "Invalid code format (3-50 chars, alphanumeric only)"
                   ELSE e1
         IN e2
    ELSE IF field.type = "number" /\ value # <<>>
    THEN LET e1 == IF field.key = "price" /\ value[1] <= 0
                   THEN "Price must be greater than 0"
                   ELSE NoMessage
             e2 == IF field.hasMin /\ value[1] < field.min
                   THEN "Must be " \o ToString(field.min) \o " or greater"
                   ELSE e1
         IN e2
    ELSE NoMessage

\* const value = product[field.key] is undefined: the product has no such key
absent(product, key) == key \notin DOMAIN product

\* the body of the forEach for one field of a product: an undefined value
\* fails the required test and no other
fieldErrorOf(field, product) ==
    IF absent(product, field.key)
    THEN IF field.required THEN requiredMessage(field) ELSE NoMessage
    ELSE fieldError(field, product[field.key])

\* validateProduct(product): the errors object, a function on the failing keys
validateProduct(product) ==
    LET failing == { f \in 1..Len(formFields) :
                       fieldErrorOf(formFields[f], product) # NoMessage }
        fieldOf(key) == CHOOSE f \in failing : formFields[f].key = key
    IN [ key \in { formFields[f].key : f \in failing } |->
           fieldErrorOf(formFields[fieldOf(key)], product) ]

\* Object.keys(validateProduct(product)).length > 0
hasValidationErrors(product) ==
    DOMAIN validateProduct(product) # {}

\* hasAnyValidationErrors
hasAnyValidationErrors ==
    \E r \in 1..Len(manualProducts) : hasValidationErrors(manualProducts[r])

\* validateAll(): the new validationErrors, keyed by product.id
newValidationErrorsSkipKnown ==
    LET bad == { r \in 1..Len(manualProducts) :
                   /\ manualProducts[r].id[1] \notin DOMAIN validationErrors
                   /\ hasValidationErrors(manualProducts[r]) }
        rowOf(id) == CHOOSE r \in bad : manualProducts[r].id[1] = id
    IN [ id \in { manualProducts[r].id[1] : r \in bad } |->
           validateProduct(manualProducts[rowOf(id)]) ]

newValidationErrors ==
    LET bad == { r \in 1..Len(manualProducts) : hasValidationErrors(manualProducts[r]) }
        rowOf(id) == CHOOSE r \in bad : manualProducts[r].id[1] = id
    IN [ id \in { manualProducts[r].id[1] : r \in bad } |->
           validateProduct(manualProducts[rowOf(id)]) ]

\* the product addEmptyProduct pushes: field.min || 0 for a number, '' otherwise;
\* its id `manual_${n}` is kept as <<n>>
emptyProduct(id) ==
    [ key \in Keys \cup {"id"} |->
        IF key = "id" THEN <<id>>
        ELSE LET f == CHOOSE f \in 1..Len(formFields) : formFields[f].key = key
             IN IF formFields[f].type = "number"
                THEN <<IF formFields[f].hasMin /\ formFields[f].min # 0
                       THEN formFields[f].min ELSE 0>>
                ELSE <<>> ]

\* delete validationErrors.value[id]
without(errs, id) ==
    [ k \in DOMAIN errs \ {id} |-> errs[k] ]

\* array.splice(index, 1), index counted from 0
splice(s, index) ==
    SubSeq(s, 1, index) \o SubSeq(s, index + 2, Len(s))

\* creationResults.value.filter(r => r.success).length
successCount(results) ==
    Cardinality({ k \in 1..Len(results) : results[k].success })

NoAlert == [kind |-> "none", successCount |-> 0, failCount |-> 0]

NotValidated == [done |-> FALSE, result |-> << >>]

\* The history variables describe the run in progress, or the run that has
\* just completed: the first event after a completed run forgets them.
forget ==
    /\ batch' = IF creating THEN batch ELSE <<>>
    /\ outcomes' = IF creating THEN outcomes ELSE <<>>
    /\ alert' = IF creating THEN alert ELSE NoAlert

InitForm ==
    /\ manualProducts = <<>>
    /\ validationErrors = << >>
    /\ creating = FALSE
    /\ creationResults = <<>>
    /\ createdCount = 0
    /\ totalToCreate = 0
    /\ productIdCounter = 0
    /\ i = 0
    /\ sent = <<>>
    /\ inFlight = 0
    /\ created = {}
    /\ batch = <<>>
    /\ outcomes = <<>>
    /\ alert = NoAlert
    /\ validated = NotValidated

\* The products validateProduct is given when it is called on one product, as
\* the unit tests of the form call it: any of the keys may be missing, a text
\* is empty, blank, too short or well formed, a number is the empty input,
\* negative, zero or positive.
NameInputs == { <<>>, <<" ">>, <<"a", "b">>, <<"a", "b", "c">> }
PriceInputs == { <<>>, <<-1>>, <<0>>, <<10>> }
CodeInputs == { <<>>, <<"a">>, <<"a", "b", "c">> }
CategoryInputs == { <<>>, <<" ", " ">>, <<"c">> }
StockInputs == { <<>>, <<-1>>, <<0>> }

productOf(present, name, price, code, category, stock) ==
    [ key \in present \cup {"id"} |->
        CASE key = "id" -> <<1>>
          [] key = "name" -> name
          [] key = "price" -> price
          [] key = "code" -> code
          [] key = "category" -> category
          [] key = "stock" -> stock ]

Products ==
    UNION { { productOf(present, name, price, code, category, stock) :
                name \in IF "name" \in present THEN NameInputs ELSE {<<>>},
                price \in IF "price" \in present THEN PriceInputs ELSE {<<>>},
                code \in IF "code" \in present THEN CodeInputs ELSE {<<>>},
                category \in IF "category" \in present THEN CategoryInputs ELSE {<<>>},
                stock \in IF "stock" \in present THEN StockInputs ELSE {<<>>} } :
            present \in SUBSET Keys }

\* a row filled in with valid values
validProduct(id) ==
    [emptyProduct(id) EXCEPT !.name = <<"a", "b", "c">>, !.price = <<10>>,
                             !.category = <<"c">>]

\* a form holding one such product, alone or after a valid row
InitProduct ==
    /\ manualProducts \in { <<product>> : product \in Products }
                           \cup { <<validProduct(2), product>> : product \in Products }
    /\ validationErrors = << >>
    /\ creating = FALSE
    /\ creationResults = <<>>
    /\ createdCount = 0
    /\ totalToCreate = 0
    /\ productIdCounter = Len(manualProducts)
    /\ i = 0
    /\ sent = <<>>
    /\ inFlight = 0
    /\ created = {}
    /\ batch = <<>>
    /\ outcomes = <<>>
    /\ alert = NoAlert
    /\ validated = NotValidated

\* addEmptyProduct()
addEmptyProduct ==
    /\ Len(manualProducts) < MaxRows
    /\ productIdCounter < MaxIds
    /\ productIdCounter' = productIdCounter + 1
    /\ manualProducts' = Append(manualProducts, emptyProduct(productIdCounter + 1))
    /\ validated' = NotValidated
    /\ forget
    /\ UNCHANGED <<validationErrors, creating, creationResults, createdCount,
                   totalToCreate, i, sent, inFlight,
                   created, notForm>>

\* removeProduct(index)
removeProduct(index) ==
    /\ index \in 0..(Len(manualProducts) - 1)
    /\ validationErrors' = without(validationErrors, manualProducts[index + 1].id[1])
    /\ manualProducts' = splice(manualProducts, index)
    /\ validated' = NotValidated
    /\ forget
    /\ UNCHANGED <<creating, creationResults, createdCount, totalToCreate,
                   productIdCounter, i, sent, inFlight,
                   created, notForm>>

\* v-model on the input of one field of one row
editField(index, key, value) ==
    /\ index \in 0..(Len(manualProducts) - 1)
    /\ manualProducts[index + 1][key] # value
    /\ manualProducts' = [manualProducts EXCEPT ![index + 1][key] = value]
    /\ validated' = NotValidated
    /\ forget
    /\ UNCHANGED <<validationErrors, creating, creationResults, createdCount,
                   totalToCreate, productIdCounter, i, sent, inFlight,
                   created, notForm>>

\* getFieldError(product, field) for every cell of the table, as the template
\* calls it on each render: a row without an entry in validationErrors gets
\* the errors of its current values, a row with an entry keeps it
renderedErrors ==
    LET bad == { r \in 1..Len(manualProducts) :
                   /\ manualProducts[r].id[1] \notin DOMAIN validationErrors
                   /\ hasValidationErrors(manualProducts[r]) }
        rowOf(id) == CHOOSE r \in bad : manualProducts[r].id[1] = id
    IN [ id \in DOMAIN validationErrors \cup { manualProducts[r].id[1] : r \in bad } |->
           IF id \in DOMAIN validationErrors
           THEN validationErrors[id]
           ELSE validateProduct(manualProducts[rowOf(id)]) ]

\* getFieldError(product, field): what the call returns for one cell
getFieldError(product, key) ==
    LET id == product.id[1]
    IN IF id \in DOMAIN renderedErrors /\ key \in DOMAIN renderedErrors[id]
       THEN renderedErrors[id][key]
       ELSE NoMessage

\* one render of the template after a change
render ==
    /\ validationErrors' = renderedErrors
    /\ validationErrors' # validationErrors
    /\ forget
    /\ UNCHANGED <<manualProducts, creating, creationResults, createdCount,
                   totalToCreate, productIdCounter, i, sent, inFlight,
                   created, validated, notForm>>

\* the Validate All button: validateAll()
validateAll ==
    /\ Len(manualProducts) # 0
    /\ validationErrors' = newValidationErrors
    /\ validated' = [done |-> TRUE, result |-> newValidationErrors]
    /\ forget
    /\ UNCHANGED <<manualProducts, creating, creationResults, createdCount,
                   totalToCreate, productIdCounter, i, sent, inFlight,
                   created, notForm>>

\* validateAll(): the value it returns
validateAllReturnTrue == TRUE

validateAllReturn == DOMAIN newValidationErrors = {}

\* createAllProducts() up to its first await: refused by validateAll(), or
\* started; with no rows the loop body never runs and the call goes straight
\* to its summary, resetManualProducts() and finally
createAllProductsCalled ==
    /\ validationErrors' = newValidationErrors
    /\ IF ~validateAllReturn
       THEN /\ alert' = [NoAlert EXCEPT !.kind = "fix validation errors"]
            /\ validated' = [done |-> TRUE, result |-> newValidationErrors]
            /\ batch' = <<>>
            /\ outcomes' = <<>>
            /\ UNCHANGED <<manualProducts, creating, creationResults, createdCount,
                           totalToCreate, productIdCounter, i, sent, inFlight,
                           created>>
       ELSE IF Len(manualProducts) = 0
       THEN /\ alert' = [kind |-> "created", successCount |-> 0, failCount |-> 0]
            /\ validated' = NotValidated
            /\ creationResults' = <<>>
            /\ createdCount' = 0
            /\ totalToCreate' = 0
            /\ productIdCounter' = 0
            /\ batch' = <<>>
            /\ outcomes' = <<>>
            /\ created' = {}
            /\ UNCHANGED <<manualProducts, creating, i, sent, inFlight>>
       ELSE /\ creating' = TRUE
            /\ validated' = [done |-> TRUE, result |-> newValidationErrors]
            /\ createdCount' = 0
            /\ totalToCreate' = Len(manualProducts)
            /\ creationResults' = <<>>
            /\ batch' = [ r \in 1..Len(manualProducts) |-> manualProducts[r].id[1] ]
            /\ outcomes' = <<>>
            /\ i' = 0
            /\ sent' = manualProducts[1]
            /\ inFlight' = inFlight + 1
            /\ alert' = NoAlert
            /\ UNCHANGED <<manualProducts, productIdCounter, created>>
    /\ UNCHANGED notForm

\* :disabled of the Create All Products button
createDisabledWhileIdle ==
    Len(manualProducts) = 0 \/ hasAnyValidationErrors

createDisabled ==
    Len(manualProducts) = 0 \/ hasAnyValidationErrors \/ creating

\* the Create All Products button
createAllProducts ==
    /\ ~createDisabled
    /\ createAllProductsCalled

\* `await createAllProducts()` of the integration test: the function is
\* called without the button, and not again before it has returned
awaitCreateAllProducts ==
    /\ ~creating
    /\ createAllProductsCalled

\* finally { creating.value = false }: the flag once the call has ended
creatingLeftSet == TRUE

creatingAfterRun == FALSE

\* createAllProducts() from the end of an await to the next one: the result
\* is pushed, createdCount++ and i++, then either the next apiRequest, or the
\* summary, its alert, resetManualProducts() when nothing failed, and finally
afterAwait(success) ==
    LET results == Append(creationResults,
                          [index |-> i, id |-> sent.id[1], success |-> success])
        n == i + 1
    IN /\ creating
       /\ sent # <<>>
       /\ outcomes' = Append(outcomes, [index |-> i, id |-> sent.id[1], success |-> success])
       /\ IF n < Len(manualProducts)
          THEN /\ creationResults' = results
               /\ createdCount' = createdCount + 1
               /\ i' = n
               /\ sent' = manualProducts[n + 1]
               /\ inFlight' = inFlight
               /\ created' = IF success THEN created \cup {sent.id[1]} ELSE created
               /\ UNCHANGED <<manualProducts, validationErrors, creating,
                              totalToCreate, productIdCounter, alert, validated>>
          ELSE /\ creating' = creatingAfterRun
               /\ i' = 0
               /\ sent' = <<>>
               /\ inFlight' = inFlight - 1
               /\ IF totalToCreate - successCount(results) = 0
                  THEN /\ alert' = [kind |-> "created", successCount |-> successCount(results),
                                    failCount |-> 0]
                       /\ manualProducts' = <<>>
                       /\ validationErrors' = << >>
                       /\ creationResults' = <<>>
                       /\ createdCount' = 0
                       /\ totalToCreate' = 0
                       /\ productIdCounter' = 0
                       /\ created' = {}
                       /\ validated' = NotValidated
                  ELSE /\ alert' = [kind |-> "some failed",
                                    successCount |-> successCount(results),
                                    failCount |-> totalToCreate - successCount(results)]
                       /\ creationResults' = results
                       /\ createdCount' = createdCount + 1
                       /\ created' = IF success THEN created \cup {sent.id[1]}
                                     ELSE created
                       /\ UNCHANGED <<manualProducts, validationErrors,
                                      totalToCreate, productIdCounter, validated>>
       /\ UNCHANGED <<batch, notForm>>

\* apiRequest resolved
submitResolved == afterAwait(TRUE)

\* apiRequest rejected (fetch failed, or the response was not ok): the catch block
submitRejected == afterAwait(FALSE)

NextForm ==
    \/ addEmptyProduct
    \/ \E index \in 0..(MaxRows - 1) : removeProduct(index)
    \/ \E index \in 0..(MaxRows - 1), key \in Keys :
          \E value \in EditValues(key) : editField(index, key, value)
    \/ render
    \/ validateAll
    \/ createAllProducts
    \/ submitResolved
    \/ submitRejected

(* ------------------------ BulkProductForm: claims ----------------------- *)
\* the bulk run has just completed: its closing alert is the last event
RunCompleted == alert.kind \in {"created", "some failed"}

\* the outcomes recorded for the row with this id
OutcomesOf(id) == { k \in 1..Len(outcomes) : outcomes[k].id = id }

\* the ids of the rows of the form
RowIds == { manualProducts[r].id[1] : r \in 1..Len(manualProducts) }

\* C8: when a bulk run completes, the succeeded and failed outcomes (the code
\* has no skipped or cancelled ones) add up to the number of records the run
\* started with, and each of those records has exactly one outcome.
C8_OneOutcomePerRecord ==
    RunCompleted =>
        /\ Cardinality({ k \in 1..Len(outcomes) : outcomes[k].success })
             + Cardinality({ k \in 1..Len(outcomes) : ~outcomes[k].success })
             = Len(batch)
        /\ \A r \in 1..Len(batch) : Cardinality(OutcomesOf(batch[r])) = 1

\* C9: a failed submit does not stop the run: when the run completes, every
\* record that stood after a failed one in the batch, and is still a row of
\* the form, was submitted and has its own outcome.
C9_FailureDoesNotStopRun ==
    RunCompleted =>
        \A j, k \in 1..Len(batch) :
            ( /\ j < k
              /\ \E o \in OutcomesOf(batch[j]) : ~outcomes[o].success
              /\ batch[k] \in RowIds )
            => OutcomesOf(batch[k]) # {}

\* C10: during a run and at its completion outcome k belongs to record k of
\* the batch, and createdCount never decreases while the run is in progress.
C10_OutcomesInInputOrder ==
    /\ []((creating \/ RunCompleted) =>
            \A k \in 1..Len(outcomes) :
                k <= Len(batch) /\ outcomes[k].id = batch[k])
    /\ [][(creating /\ creating') => createdCount' >= createdCount]_vars

\* C11: the body passed to apiRequest is never that of a record with
\* validation errors: a record that is invalid at the moment the loop reaches
\* it is not submitted, whatever edits, additions and removals interleave
\* with the run.
C11_InvalidNeverSubmitted ==
    creating => DOMAIN validateProduct(sent) = {}

\* C12: when a run over n valid records completes and every submit succeeded,
\* it reports n succeeded and 0 failed, and the progress stands at (n, n).
C12_AllSucceed ==
    (RunCompleted /\ \A k \in 1..Len(outcomes) : outcomes[k].success)
    => /\ alert.successCount = Len(batch)
       /\ alert.failCount = 0
       /\ createdCount = Len(batch)
       /\ totalToCreate = Len(batch)

Values == { <<>> } \cup { <<n>> : n \in (0 - MaxValue)..MaxValue }

\* the rule types that apply to a number input, each rule without a message
RuleTypes == { "required", "numeric", "positive", "nonNegative" }

Rules == [ type : RuleTypes ]

RuleLists == { <<rule>> : rule \in Rules } \cup { <<r1, r2>> : r1 \in Rules, r2 \in Rules }

\* VALIDATION_MESSAGES
VALIDATION_MESSAGES ==
    [ REQUIRED |-> "This field is required",
      INVALID_NUMBER |-> "Please enter a valid number",
      POSITIVE_NUMBER |-> "This value must be greater than 0",
      NON_NEGATIVE |-> "This value cannot be negative" ]

\* `value &&`: the empty string and the number 0 are falsy
truthy(value) == value # <<>> /\ value[1] # 0

\* validators.js
isRequired(value) == value # <<>>

isNumeric(value) == value # <<>>

isPositive(value) == isNumeric(value) /\ value[1] > 0

isNonNegative(value) == isNumeric(value) /\ value[1] >= 0

\* one case of the switch of validateField: the message pushed, NoMessage for none
ruleError(rule, value) ==
    CASE rule.type = "required" ->
           IF ~isRequired(value) THEN VALIDATION_MESSAGES.REQUIRED ELSE NoMessage
      [] rule.type = "numeric" ->
           IF truthy(value) /\ ~isNumeric(value)
           THEN VALIDATION_MESSAGES.INVALID_NUMBER ELSE NoMessage
      [] rule.type = "positive" ->
           IF truthy(value) /\ ~isPositive(value)
           THEN VALIDATION_MESSAGES.POSITIVE_NUMBER ELSE NoMessage
      [] rule.type = "nonNegative" ->
           IF truthy(value) /\ ~isNonNegative(value)
           THEN VALIDATION_MESSAGES.NON_NEGATIVE ELSE NoMessage

\* for (const rule of rules): fieldErrors, the messages pushed in rule order
RECURSIVE fieldErrors(_, _)
fieldErrors(rules, value) ==
    IF rules = <<>> THEN <<>>
    ELSE IF ruleError(Head(rules), value) # NoMessage
         THEN <<ruleError(Head(rules), value)>> \o fieldErrors(Tail(rules), value)
         ELSE fieldErrors(Tail(rules), value)

NoCall == [field |-> "", value |-> <<>>, rules |-> <<>>]

InitValidation ==
    /\ errors = << >>
    /\ call = NoCall
    /\ valid = TRUE

\* validateField(field, value, rules)
validateField(field, value, rules) ==
    /\ errors' = IF fieldErrors(rules, value) # <<>>
                 THEN [ k \in DOMAIN errors \cup {field} |->
                          IF k = field THEN fieldErrors(rules, value) ELSE errors[k] ]
                 ELSE [ k \in DOMAIN errors \ {field} |-> errors[k] ]
    /\ valid' = (fieldErrors(rules, value) = <<>>)
    /\ call' = [field |-> field, value |-> value, rules |-> rules]
    /\ UNCHANGED notValidation

NextValidation ==
    \E field \in {"price", "stock"}, value \in Values, rules \in RuleLists :
        validateField(field, value, rules)

\* C19: for every number v <= 0, 0 included, validateField with the single
\* rule {type: 'positive'} returns false and records an error for the field.
C19_NonPositiveRejected ==
    ( /\ call.rules = <<[type |-> "positive"]>>
      /\ call.value # <<>>
      /\ call.value[1] <= 0 )
    => /\ valid = FALSE
       /\ call.field \in DOMAIN errors
       /\ errors[call.field] # <<>>

(* ------------------------- validateProduct: claims ---------------------- *)
\* the value of a field is absent, empty or whitespace-only
Missing(product, field) ==
    \/ field.key \notin DOMAIN product
    \/ product[field.key] = <<>>
    \/ /\ field.type = "text"
       /\ \A k \in 1..Len(product[field.key]) : product[field.key][k] = " "

\* the rules of a field in the order validateProduct declares them
RuleNames == <<"required", "nameLength", "codeFormat", "pricePositive", "min">>

\* the rule applies to the field and the value of the product fails it
RuleFails(rule, field, product) ==
    LET has == field.key \in DOMAIN product /\ product[field.key] # <<>>
        value == product[field.key]
    IN CASE rule = "required" -> field.required /\ Missing(product, field)
         [] rule = "nameLength" -> has /\ field.key = "name" /\ Len(value) < 3
         [] rule = "codeFormat" -> has /\ field.key = "code" /\ ~codeFormat(value)
         [] rule = "pricePositive" -> has /\ field.key = "price" /\ value[1] <= 0
         [] rule = "min" -> has /\ field.type = "number" /\ field.hasMin
                                /\ value[1] < field.min

RuleMessage(rule, field) ==
    CASE rule = "required" ->
           join(IF Len(field.label) >= 2 /\ field.label[Len(field.label)] = "*"
                   /\ field.label[Len(field.label) - 1] = " "
                THEN SubSeq(field.label, 1, Len(field.label) - 2)
                ELSE field.label) \o " is required"
      [] rule = "nameLength" -> "Product name must be at least 3 characters"
      [] rule = "codeFormat" -> "Invalid code format (3-50 chars, alphanumeric only)"
      [] rule = "pricePositive" -> "Price must be greater than 0"
      [] rule = "min" -> "Must be " \o ToString(field.min) \o " or greater"

\* the rules of the field that the product fails, by their place in the order
Failing(field, product) ==
    { n \in 1..Len(RuleNames) : RuleFails(RuleNames[n], field, product) }

\* the message validateProduct reports for a field, NoMessage for none
Reported(product, key) ==
    IF key \in DOMAIN validateProduct(product)
    THEN validateProduct(product)[key]
    ELSE NoMessage

\* C17: for every record and field, the message reported for the field is
\* the message of the first rule, in declared order, that the value fails.
C17_FirstFailingRuleWins ==
    \A r \in 1..Len(manualProducts), f \in 1..Len(formFields) :
        LET failing == Failing(formFields[f], manualProducts[r])
        IN failing # {} =>
             \E n \in failing :
                /\ \A m \in failing : n <= m
                /\ Reported(manualProducts[r], formFields[f].key)
                     = RuleMessage(RuleNames[n], formFields[f])

\* C18: for every record, a required field whose value is absent, empty or
\* whitespace-only is reported with '<label without its trailing " *"> is
\* required', and a field that passes all its rules is not reported.
C18_RequiredMessage ==
    \A r \in 1..Len(manualProducts), f \in 1..Len(formFields) :
        /\ (formFields[f].required /\ Missing(manualProducts[r], formFields[f]))
             => Reported(manualProducts[r], formFields[f].key)
                  = RuleMessage("required", formFields[f])
        /\ Failing(formFields[f], manualProducts[r]) = {}
             => Reported(manualProducts[r], formFields[f].key) = NoMessage

\* validateAll() has reported a blank name, a missing category and nothing
\* else for a product whose price, code and stock pass their rules
C18_Witness ==
    /\ Len(manualProducts) = 1
    /\ DOMAIN manualProducts[1] = {"id", "name", "price", "code", "stock"}
    /\ manualProducts[1].name = <<" ">>
    /\ manualProducts[1].price = <<10>>
    /\ manualProducts[1].code = <<"a", "b", "c">>
    /\ 1 \in DOMAIN validationErrors
    /\ DOMAIN validationErrors[1] = {"name", "category"}
    /\ validationErrors[1].name = "Name is required"
    /\ validationErrors[1].category = "Category is required"

(* -------------------- BulkProductForm: further claims ------------------- *)
\* C21: no stale validation result is returned: for every row and field,
\* getFieldError gives the message a fresh validateProduct of the row's
\* current values gives for that field, whatever edits came before.
C21_NoStaleFieldError ==
    \A r \in 1..Len(manualProducts), key \in Keys :
        getFieldError(manualProducts[r], key) = Reported(manualProducts[r], key)

\* this step is a call of createAllProducts(): it is refused, or it starts a run
CreateCalledStep ==
    \/ alert'.kind = "fix validation errors"
    \/ ~creating /\ creating'
    \/ inFlight' > inFlight

C24_OneSubmitInFlight ==
    /\ inFlight <= 1
    /\ creating => inFlight = 1

\* the first request of a run has settled and the second one is in flight
C24_Witness ==
    /\ creating
    /\ inFlight = 1
    /\ i = 1
    /\ Len(outcomes) = 1
    /\ Len(manualProducts) = 2
    /\ sent = manualProducts[2]

\* C25: from the start of a run to its completion the rows are frozen: no
\* step taken while the run is in progress changes a field of a row or adds
\* or removes a row, so the body submitted for a row is the row as it was
\* validated.
C25_RowsFrozenDuringRun ==
    [][(creating /\ creating') => manualProducts' = manualProducts]_formVars

\* C28: during a run and after it, createdCount is the number of results
\* recorded and never exceeds totalToCreate, whatever additions and removals
\* of rows interleave with the run.
C28_ProgressWithinTotal ==
    (creating \/ RunCompleted) =>
        /\ createdCount = Len(creationResults)
        /\ createdCount <= totalToCreate

\* C29: a row whose request resolved in one run is not submitted again by a
\* later run: the body of a request in flight is never that of a row already
\* created.
C29_CreatedNeverResubmitted ==
    creating => sent.id[1] \notin created

\* this step is the settling of the request in flight
SettleStep == Len(outcomes') = Len(outcomes) + 1

InitSpec == InitForm /\ ParkedBreaker /\ ParkedRetry /\ InitValidation /\ ParkedGuarded

Spec == InitSpec /\ [][NextForm]_vars

\* The bulk run and the handlers that change the rows, when every apiRequest
\* settles (a pending promise resolves or rejects).  render and the Validate
\* All button are left out: they write validationErrors only, which the run
\* never reads (createAllProducts calls validateAll() itself, the button's
\* :disabled validates the rows afresh).
NextRun ==
    \/ addEmptyProduct
    \/ \E index \in 0..(MaxRows - 1) : removeProduct(index)
    \/ \E index \in 0..(MaxRows - 1), key \in Keys :
          \E value \in EditValues(key) : editField(index, key, value)
    \/ createAllProducts
    \/ submitResolved
    \/ submitRejected

SpecRun ==
    InitSpec /\ [][NextRun]_vars /\ WF_vars(submitResolved \/ submitRejected)

\* validateProduct, validateAll and createAllProducts on one product of any
\* shape
InitProductSpec == InitProduct /\ ParkedBreaker /\ ParkedRetry /\ InitValidation /\ ParkedGuarded

NextProduct ==
    \/ validateAll
    \/ render
    \/ awaitCreateAllProducts
    \/ submitResolved
    \/ submitRejected

SpecProduct == InitProductSpec /\ [][NextProduct]_vars

InitRetrySpec == ParkedBreaker /\ InitRetry /\ InitForm /\ InitValidation /\ ParkedGuarded

SpecRetry == InitRetrySpec /\ [][NextRetry]_vars

InitBreakerSpec == InitBreaker /\ ParkedRetry /\ InitForm /\ InitValidation /\ ParkedGuarded

InitValidationSpec == InitValidation /\ ParkedBreaker /\ ParkedRetry /\ InitForm /\ ParkedGuarded

SpecValidation == InitValidationSpec /\ [][NextValidation]_vars

SpecBreaker == InitBreakerSpec /\ [][NextBreaker]_vars

\* a batch dispatched through the RetryManager around one breaker
InitGuardedSpec == InitGuarded /\ InitForm /\ InitValidation

SpecGuarded == InitGuardedSpec /\ [][NextGuarded]_vars
====
